---- MODULE Spec2Model ----
(***************************************************************************)
(* evgflip: detection of task flips over a sliding window of three         *)
(* consecutive versions (src/src/evgflip/find_flips.py).                   *)
(*                                                                         *)
(* The specifications share the module's variables:                        *)
(*   SpecFlip     applies _is_task_a_flip to bounded inputs;               *)
(*   SpecVersion  applies _flips_for_version to bounded work items;        *)
(*   SpecScenario is find() on the three versions of the end-to-end        *)
(*                scenario, which the source produces and then ends;       *)
(*   Spec         is find(): the main thread walking the version source    *)
(*                and the worker pool running the submitted work items;    *)
(*   FairSpec     is Spec with the pool's and the main thread's progress.  *)
(***************************************************************************)
EXTENDS Integers, Sequences, FiniteSets, TLC

VARIABLES
    probe,      \* a call of a pure function: its arguments and its result
    look_back,  \* find's look_back argument
    n_threads,  \* find's n_threads argument (max_workers of the pool)
    script,     \* what the source is bound to produce: the versions of a
                \* script if it follows one, else any of these lists of builds
    consumed,   \* the versions the version iterator has produced so far
    source,     \* "open", "exhausted" (StopIteration) or "raised"
    tees,       \* windowed_iter: how many versions each of the 3 tees has read
                \* (in the loop, the third tee level with the second: the
                \* main thread is waiting in the source for the next version)
    pool,       \* the futures of the executor, in the order of exe.submit
    jobs,       \* find's jobs list: which future of the pool each entry is
    results,    \* the FlipLists collected so far by line 152
    pc,         \* where find's main thread is
    err,        \* the exception find is propagating, NoError if none
    ret         \* the mapping find returned

vars == <<probe, look_back, n_threads, script, consumed, source, tees, pool,
          jobs, results, pc, err, ret>>

findVars == <<look_back, n_threads, script, consumed, source, tees, pool, jobs,
              results, pc, err, ret>>

----------------------------------------------------------------------------
(* Bounds and program constants *)

\* the longest version history the source produces
MaxVersions == 4

\* find_flips.py:15
DEFAULT_THREADS == 16

----------------------------------------------------------------------------
(* Data: strings the code inspects by character are character sequences *)

Bang == <<"!">>

Linux == <<"l", "i", "n", "u", "x">>

\* str.startswith
startswith(s, prefix) ==
    /\ Len(s) >= Len(prefix)
    /\ SubSeq(s, 1, Len(prefix)) = prefix

\* evergreen Task: display_name, activated, status, and what is_success() answers
Task(name, activated, status, success) ==
    [display_name |-> name, activated |-> activated, status |-> status,
     success |-> success]

\* an activated task whose is_success() follows its status, as evergreen's does
RunTask(name, status) == Task(name, TRUE, status, status = "success")

\* evergreen Build
Build(display_name, build_variant, tasks) ==
    [display_name |-> display_name, build_variant |-> build_variant,
     tasks |-> tasks]

\* evergreen Version
Version(revision, create_time, builds) ==
    [revision |-> revision, create_time |-> create_time, builds |-> builds]

WorkItem(version, version_prev, version_next) ==
    [version |-> version, version_prev |-> version_prev,
     version_next |-> version_next]

FlipList(revision, flipped_tasks) ==
    [revision |-> revision, flipped_tasks |-> flipped_tasks]

\* a Python dict is a function on its keys; the empty dict
EmptyDict == <<>>

Last(S) == CHOOSE i \in S : \A j \in S : j <= i

----------------------------------------------------------------------------
(* The pure functions of find_flips.py *)

\* a faulty _filter_empty_values: nothing is filtered
filter_empty_values_keep_all(d) == d

_filter_empty_values(d) ==
    [k \in {x \in DOMAIN d : d[x] # <<>>} |-> d[k]]

_filter_builds(build) ==
    IF startswith(build.display_name, Bang) THEN TRUE ELSE FALSE

\* a dict comprehension: a later task of the same display name wins
_create_task_map(tasks) ==
    [n \in {tasks[i].display_name : i \in DOMAIN tasks} |->
        tasks[Last({i \in DOMAIN tasks : tasks[i].display_name = n})]]

\* a faulty _is_task_a_flip: the next version's status is not looked at
is_task_a_flip_ignores_next(task, tasks_prev, tasks_next) ==
    /\ task.activated
    /\ ~task.success
    /\ task.display_name \in DOMAIN tasks_prev
    /\ tasks_prev[task.display_name].status = task.status

_is_task_a_flip(task, tasks_prev, tasks_next) ==
    IF task.activated /\ ~task.success
    THEN IF \/ task.display_name \notin DOMAIN tasks_prev
            \/ tasks_prev[task.display_name].status # task.status
         THEN FALSE
         ELSE IF \/ task.display_name \notin DOMAIN tasks_next
                 \/ tasks_next[task.display_name].status = task.status
              THEN FALSE
              ELSE TRUE
    ELSE FALSE

\* Version.build_by_variant: the version's builds of that variant (none: KeyError)
build_by_variant(version, build_variant) ==
    {i \in DOMAIN version.builds : version.builds[i].build_variant = build_variant}

\* the outcome of a call: a value returned, or an exception raised
Return(v) == [ok |-> TRUE, value |-> v]

\* _flips_for_build raises (build_by_variant's KeyError)
RaiseInBuild == [ok |-> FALSE, value |-> <<>>]

\* _flips_for_version raises
RaiseInVersion == [ok |-> FALSE, value |-> FlipList("", EmptyDict)]

_flips_for_build(build, version_prev, version_next) ==
    LET prev == build_by_variant(version_prev, build.build_variant)
        next == build_by_variant(version_next, build.build_variant)
    IN  IF prev = {} \/ next = {} THEN RaiseInBuild
        ELSE LET build_prev == version_prev.builds[CHOOSE i \in prev : TRUE]
                 build_next == version_next.builds[CHOOSE i \in next : TRUE]
                 tasks_prev == _create_task_map(build_prev.tasks)
                 tasks_next == _create_task_map(build_next.tasks)
                 IsFlip(t) == _is_task_a_flip(t, tasks_prev, tasks_next)
                 flipped == SelectSeq(build.tasks, IsFlip)
             IN  Return([i \in DOMAIN flipped |-> flipped[i].display_name])

\* line 116: the builds of the version that pass _filter_builds
FilteredBuilds(version) ==
    SelectSeq(version.builds, _filter_builds)

_flips_for_version(work_item) ==
    LET version == work_item.version
        builds == FilteredBuilds(version)
        Flips(b) == _flips_for_build(b, work_item.version_prev,
                                     work_item.version_next)
        variants == {builds[i].build_variant : i \in DOMAIN builds}
        flipped_tasks ==
            [v \in variants |->
                Flips(builds[Last({i \in DOMAIN builds :
                                     builds[i].build_variant = v})]).value]
    IN  IF \E i \in DOMAIN builds : ~Flips(builds[i]).ok THEN RaiseInVersion
        ELSE Return(FlipList(version.revision,
                             _filter_empty_values(flipped_tasks)))

----------------------------------------------------------------------------
(* Inputs *)

TaskNames == {"A", "B"}

Statuses == {"success", "failed", "timed_out"}

\* every task the flip predicate is tried on: is_success() is what the task
\* object answers, whatever its status
Tasks ==
    {Task(n, a, st, su) : n \in TaskNames, a \in BOOLEAN, st \in Statuses,
                          su \in BOOLEAN}

\* every name -> Task map over a subset of the names
TaskMaps ==
    UNION {[D -> Statuses] : D \in SUBSET TaskNames}

AsTaskMap(m) == [n \in DOMAIN m |-> RunTask(n, m[n])]

NoProbe == [op |-> "none"]

\* the source follows no script: it produces a version with any of the lists
\* of builds, ends or raises
Unscripted(builds) == [on |-> FALSE, rest |-> <<>>, builds |-> builds]

\* the exception find propagates: none, the version source's, or the one the
\* j-th work item submitted to the pool raised
NoError == [kind |-> "none", job |-> 0]

SourceError == [kind |-> "source", job |-> 0]

JobError(j) == [kind |-> "job", job |-> j]

----------------------------------------------------------------------------
(* SpecFlip: _is_task_a_flip on every input of the bounded sets *)

InitFind0 ==
    /\ look_back = 0
    /\ n_threads = DEFAULT_THREADS
    /\ script = Unscripted({})
    /\ consumed = <<>>
    /\ source = "open"
    /\ tees = <<0, 0, 0>>
    /\ pool = <<>>
    /\ jobs = <<>>
    /\ results = <<>>
    /\ pc = "idle"
    /\ err = NoError
    /\ ret = EmptyDict

InitFlip ==
    /\ \E t \in Tasks, mp \in TaskMaps, mn \in TaskMaps :
          probe = [op |-> "_is_task_a_flip", task |-> t,
                   tasks_prev |-> AsTaskMap(mp), tasks_next |-> AsTaskMap(mn),
                   done |-> FALSE, result |-> FALSE]
    /\ InitFind0

CallIsTaskAFlip ==
    /\ probe.op = "_is_task_a_flip"
    /\ ~probe.done
    /\ probe' = [probe EXCEPT !.done = TRUE,
                    !.result = _is_task_a_flip(probe.task, probe.tasks_prev,
                                               probe.tasks_next)]
    /\ UNCHANGED findVars

NextFlip == CallIsTaskAFlip

SpecFlip == InitFlip /\ [][NextFlip]_vars

----------------------------------------------------------------------------
(* SpecVersion: _flips_for_version on every work item of the bounded sets *)

\* the most builds a version under analysis has
MaxBuilds == 2

Variants == {"linux", "windows-debug"}

VariantChars(v) ==
    IF v = "linux" THEN Linux
    ELSE <<"w", "i", "n", "d", "o", "w", "s", "-", "d", "e", "b", "u", "g">>

\* the tasks of a build: A and B failed, A failed and B passed, both passed
TasksBothFailed == <<RunTask("A", "failed"), RunTask("B", "failed")>>

TasksAFailed == <<RunTask("A", "failed"), RunTask("B", "success")>>

TasksBothPassed == <<RunTask("A", "success"), RunTask("B", "success")>>

\* the task lists of the builds of the current version
TaskLists == {TasksBothFailed, TasksAFailed, TasksBothPassed}

\* the task lists of the builds of the neighbouring versions
NeighbourTaskLists == {TasksBothFailed, TasksBothPassed}

\* a build of the variant, its display name marked with "!" or not
BuildChoices ==
    {Build((IF bang THEN Bang ELSE <<>>) \o VariantChars(v), v, tl) :
        bang \in BOOLEAN, v \in Variants, tl \in TaskLists}

BuildLists ==
    UNION {[1..n -> BuildChoices] : n \in 0..MaxBuilds}

\* a neighbouring version has each variant at most once, under its plain name
NeighbourBuildLists ==
    {<<>>}
    \cup {<<Build(VariantChars(v), v, tl)>> :
            v \in Variants, tl \in NeighbourTaskLists}
    \cup {<<Build(Linux, "linux", t1),
            Build(VariantChars("windows-debug"), "windows-debug", t2)>> :
            t1 \in NeighbourTaskLists, t2 \in NeighbourTaskLists}

InitVersion ==
    /\ \E bl \in BuildLists, bp \in NeighbourBuildLists,
          bn \in NeighbourBuildLists :
          probe = [op |-> "_flips_for_version",
                   work_item |-> WorkItem(Version("abc123", 1, bl),
                                          Version("def456", 2, bp),
                                          Version("0a1b2c", 0, bn)),
                   done |-> FALSE, analysed |-> <<>>,
                   result |-> RaiseInVersion]
    /\ InitFind0

CallFlipsForVersion ==
    /\ probe.op = "_flips_for_version"
    /\ ~probe.done
    /\ probe' = [probe EXCEPT !.done = TRUE,
                    !.analysed = FilteredBuilds(probe.work_item.version),
                    !.result = _flips_for_version(probe.work_item)]
    /\ UNCHANGED findVars

NextVersion == CallFlipsForVersion

SpecVersion == InitVersion /\ [][NextVersion]_vars

----------------------------------------------------------------------------
(* Spec: find(), lines 126-154 *)

\* the revision of the i-th version of the history
Revisions == <<"def456", "abc123", "0a1b2c", "3d4e5f", "6a7b8c", "9d0e1f">>

\* create_time values and look_back values: below, at and above each other
Times == {0, 1}

LookBacks == {0, 1, 2}

\* a build of the variant under a display name that line 116 keeps
MarkedBuild(v, tl) == Build(Bang \o VariantChars(v), v, tl)

\* A timed out and B failed
TasksATimedOut == <<RunTask("A", "timed_out"), RunTask("B", "failed")>>

\* the builds of a version of the history: the variants "linux" and
\* "windows-debug", with task lists such that over three versions a task may
\* flip in both variants (the first list twice, then the second), in "linux"
\* alone (the second twice, then the first), or in neither
HistoryBuilds ==
    { <<MarkedBuild("linux", TasksBothFailed),
        MarkedBuild("windows-debug", TasksAFailed)>>,
      <<MarkedBuild("linux", TasksATimedOut),
        MarkedBuild("windows-debug", TasksBothPassed)>> }

\* one of them, for the progress of the pool
FairBuilds ==
    { <<MarkedBuild("linux", TasksBothFailed),
        MarkedBuild("windows-debug", TasksAFailed)>> }

\* what the source may produce next: a version with any of the lists of
\* builds, created at any of the times
NextVersions ==
    {Version(Revisions[Len(consumed) + 1], t, bl) :
        t \in Times, bl \in script.builds}

\* what the source produces when its next version is asked for
Offered ==
    IF script.on
    THEN IF script.rest = <<>> THEN {} ELSE {Head(script.rest)}
    ELSE IF Len(consumed) < MaxVersions THEN NextVersions ELSE {}

\* the script, once the source has produced a version
Advance == IF script.on THEN [script EXCEPT !.rest = Tail(@)] ELSE script

\* the source may be at its end (StopIteration)
MayStop == ~script.on \/ script.rest = <<>>

\* the source may raise
MayRaise == ~script.on

\* a future of the pool: the work item it runs, its state, and the FlipList
\* it returned
Job(work_item) ==
    [work_item |-> work_item, status |-> "pending",
     result |-> FlipList("", EmptyDict)]

\* the j-th future submitted to the pool has run, to a result or an exception
Finished(j) == pool[j].status # "pending"

\* the future the j-th entry of find's jobs list refers to
Future(j) == pool[jobs[j]]

\* find is called: nothing is read from the source yet
Called ==
    /\ probe = NoProbe
    /\ look_back \in LookBacks
    /\ n_threads \in {1, DEFAULT_THREADS}
    /\ consumed = <<>>
    /\ source = "open"
    /\ tees = <<0, 0, 0>>
    /\ pool = <<>>
    /\ jobs = <<>>
    /\ results = <<>>
    /\ pc = "setup"
    /\ err = NoError
    /\ ret = EmptyDict

Init == Called /\ script = Unscripted(HistoryBuilds)

\* for the progress of the pool: histories of one of the lists of builds
InitFair == Called /\ script = Unscripted(FairBuilds)

\* windowed_iter(src, 3) is built: tee k of 0..2 is advanced k times, which
\* reads the first two versions from the source
SetupPull ==
    /\ pc = "setup"
    /\ source = "open"
    /\ \E v \in Offered :
          consumed' = Append(consumed, v)
    /\ tees' = IF Len(consumed) = 0 THEN <<0, 1, 1>> ELSE <<0, 1, 2>>
    /\ pc' = IF Len(consumed) = 0 THEN "setup" ELSE "loop"
    /\ script' = Advance
    /\ UNCHANGED <<probe, look_back, n_threads, source, pool, jobs,
                   results, err, ret>>

\* the source ends while the tees are advanced: windowed_iter catches the
\* StopIteration and yields nothing, so the loop body never runs
SetupStop ==
    /\ pc = "setup"
    /\ source = "open"
    /\ MayStop
    /\ source' = "exhausted"
    /\ pc' = "await"
    /\ UNCHANGED <<probe, look_back, n_threads, script, consumed, tees, pool,
                   jobs, results, err, ret>>

\* the source raises while the tees are advanced: the with block is left
SetupRaise ==
    /\ pc = "setup"
    /\ source = "open"
    /\ MayRaise
    /\ source' = "raised"
    /\ err' = SourceError
    /\ pc' = "exit"
    /\ UNCHANGED <<probe, look_back, n_threads, script, consumed, tees, pool,
                   jobs, results, ret>>

\* the main thread is in the third tee's read of the source, the first two
\* tees having read this iteration's versions from the buffer
InSource == tees[3] = tees[2]

\* line 142, next(zip): the first two tees read their next version from the
\* buffer; the third tee then asks the source, where the main thread waits
\* while the workers of the pool run
LoopZip ==
    /\ pc = "loop"
    /\ source = "open"
    /\ ~InSource
    /\ tees' = <<tees[1] + 1, tees[2] + 1, tees[3]>>
    /\ UNCHANGED <<probe, look_back, n_threads, script, consumed, source,
                   pool, jobs, results, pc, err, ret>>

\* line 142: the source answers with a version, which the third tee reads:
\* zip yields the triple and the loop body starts
LoopPull ==
    /\ pc = "loop"
    /\ source = "open"
    /\ InSource
    /\ \E v \in Offered :
          consumed' = Append(consumed, v)
    /\ tees' = <<tees[1], tees[2], tees[3] + 1>>
    /\ script' = Advance
    /\ pc' = "test"
    /\ UNCHANGED <<probe, look_back, n_threads, source, pool, jobs, results,
                   err, ret>>

\* the source answers that it is exhausted: the loop ends
LoopStop ==
    /\ pc = "loop"
    /\ source = "open"
    /\ InSource
    /\ MayStop
    /\ source' = "exhausted"
    /\ pc' = "await"
    /\ UNCHANGED <<probe, look_back, n_threads, script, consumed, tees, pool,
                   jobs, results, err, ret>>

\* the source raises: the exception leaves the loop and the with block
LoopRaise ==
    /\ pc = "loop"
    /\ source = "open"
    /\ InSource
    /\ MayRaise
    /\ source' = "raised"
    /\ err' = SourceError
    /\ pc' = "exit"
    /\ UNCHANGED <<probe, look_back, n_threads, script, consumed, tees, pool,
                   jobs, results, ret>>

\* a faulty Window: the window is centred one version late
window_shifted ==
    WorkItem(consumed[tees[3]], consumed[tees[2]], consumed[tees[1]])

\* lines 142 and 149: the triple zip yielded, the version each tee read last,
\* as WorkItem(version, version_prev, version_next)
Window ==
    WorkItem(consumed[tees[2]], consumed[tees[1]], consumed[tees[3]])

\* a faulty Cutoff: a version created exactly at look_back is cut off too
cutoff_inclusive(work_item) == work_item.version.create_time <= look_back

\* a faulty Cutoff: the next version of the window is tested as well
cutoff_tests_next(work_item) ==
    \/ work_item.version.create_time < look_back
    \/ work_item.version_next.create_time < look_back

\* line 145: the test that ends the loop, on the window's current version
Cutoff(work_item) == work_item.version.create_time < look_back

\* lines 145-147: the current version was created before look_back: break
LoopBreak ==
    /\ pc = "test"
    /\ Cutoff(Window)
    /\ pc' = "await"
    /\ UNCHANGED <<probe, look_back, n_threads, script, consumed, source,
                   tees, pool, jobs, results, err, ret>>

\* lines 145-150: the current version passes the test and exe.submit hands
\* the work item to the pool, whose workers may run it before submit returns
LoopSubmit ==
    /\ pc = "test"
    /\ ~Cutoff(Window)
    /\ pool' = Append(pool, Job(Window))
    /\ pc' = "append"
    /\ UNCHANGED <<probe, look_back, n_threads, script, consumed, source,
                   tees, jobs, results, err, ret>>

\* line 150: exe.submit has returned the future, jobs.append adds it to
\* find's list
LoopAppend ==
    /\ pc = "append"
    /\ jobs' = Append(jobs, Len(pool))
    /\ pc' = "loop"
    /\ UNCHANGED <<probe, look_back, n_threads, script, consumed, source,
                   tees, pool, results, err, ret>>

\* the pool starts its futures in submission order, max_workers at a time
Startable(j) ==
    /\ j \in DOMAIN pool
    /\ pool[j].status = "pending"
    /\ Cardinality({i \in 1..(j - 1) : ~Finished(i)}) < n_threads

\* a worker runs _flips_for_version on a work item to its end
RunJob(j) ==
    /\ Startable(j)
    /\ LET r == _flips_for_version(pool[j].work_item)
       IN  pool' = [pool EXCEPT
                       ![j].status = IF r.ok THEN "done" ELSE "failed",
                       ![j].result = r.value]
    /\ UNCHANGED <<probe, look_back, n_threads, script, consumed, source,
                   tees, jobs, results, pc, err, ret>>

\* a worker's get_builds, build_by_variant or get_tasks raises (the API fails)
FailJob(j) ==
    /\ Startable(j)
    /\ pool' = [pool EXCEPT ![j].status = "failed"]
    /\ UNCHANGED <<probe, look_back, n_threads, script, consumed, source,
                   tees, jobs, results, pc, err, ret>>

\* a faulty NextAwaited: the newest uncollected future is awaited first
next_awaited_newest == Len(jobs) - Len(results)

\* line 152: the entry of jobs whose result() is called next
NextAwaited == Len(results) + 1

\* line 152: job.result() returns
AwaitResult ==
    /\ pc = "await"
    /\ Len(results) < Len(jobs)
    /\ Future(NextAwaited).status = "done"
    /\ results' = Append(results, Future(NextAwaited).result)
    /\ UNCHANGED <<probe, look_back, n_threads, script, consumed, source,
                   tees, pool, jobs, pc, err, ret>>

\* a faulty AwaitRaiseErr: the work item's exception is swallowed
await_raise_swallowed == NoError

\* what find propagates when job.result() raises: that future's exception
AwaitRaiseErr == JobError(jobs[NextAwaited])

\* line 152: job.result() raises the work item's exception
AwaitRaise ==
    /\ pc = "await"
    /\ Len(results) < Len(jobs)
    /\ Future(NextAwaited).status = "failed"
    /\ err' = AwaitRaiseErr
    /\ pc' = "exit"
    /\ UNCHANGED <<probe, look_back, n_threads, script, consumed, source,
                   tees, pool, jobs, results, ret>>

\* line 152: every result is collected, the with block ends
AwaitDone ==
    /\ pc = "await"
    /\ Len(results) = Len(jobs)
    /\ pc' = "exit"
    /\ UNCHANGED <<probe, look_back, n_threads, script, consumed, source,
                   tees, pool, jobs, results, err, ret>>

\* line 154: {r.revision: r.flipped_tasks for r in results if r.flipped_tasks}
ResultDict(rs) ==
    LET kept == {i \in DOMAIN rs : rs[i].flipped_tasks # EmptyDict}
    IN  [rev \in {rs[i].revision : i \in kept} |->
            rs[Last({i \in kept : rs[i].revision = rev})].flipped_tasks]

\* a faulty ShutdownDone: the pool is shut down without waiting
shutdown_no_wait == TRUE

\* Executor.__exit__ is shutdown(wait=True): it returns when every future of
\* the pool has run
ShutdownDone == \A j \in DOMAIN pool : Finished(j)

\* the with block is left normally and find returns: lines 152-154
ExitReturn ==
    /\ pc = "exit"
    /\ err = NoError
    /\ ShutdownDone
    /\ ret' = ResultDict(results)
    /\ pc' = "returned"
    /\ UNCHANGED <<probe, look_back, n_threads, script, consumed, source,
                   tees, pool, jobs, results, err>>

\* the with block is left by an exception, which find lets through
ExitRaise ==
    /\ pc = "exit"
    /\ err # NoError
    /\ ShutdownDone
    /\ pc' = "raised"
    /\ UNCHANGED <<probe, look_back, n_threads, script, consumed, source,
                   tees, pool, jobs, results, err, ret>>

Main ==
    \/ SetupPull
    \/ SetupStop
    \/ SetupRaise
    \/ LoopZip
    \/ LoopPull
    \/ LoopStop
    \/ LoopRaise
    \/ LoopBreak
    \/ LoopSubmit
    \/ LoopAppend
    \/ AwaitResult
    \/ AwaitRaise
    \/ AwaitDone
    \/ ExitReturn
    \/ ExitRaise

Worker ==
    \/ \E j \in DOMAIN pool : RunJob(j)
    \/ \E j \in DOMAIN pool : FailJob(j)

Next == Main \/ Worker

Spec == Init /\ [][Next]_vars

\* the process does not stop while the main thread or a worker of the pool can
\* take a step
FairSpec ==
    /\ InitFair
    /\ [][Next]_vars
    /\ WF_vars(Next)

----------------------------------------------------------------------------
(* SpecScenario: find() on the end-to-end scenario of three versions *)

\* the window as the source produces it: the one build variant "linux", its
\* display name "linux"; A failed and B failed in the previous version, A
\* failed and B passed in the current one, "abc123" created at T, A passed and
\* B passed in the next
ScenarioWindow(T, tp, tn) ==
    << Version(Revisions[1], tp, <<Build(Linux, "linux", TasksBothFailed)>>),
       Version("abc123", T, <<Build(Linux, "linux", TasksAFailed)>>),
       Version(Revisions[3], tn, <<Build(Linux, "linux", TasksBothPassed)>>) >>

InitScenario ==
    /\ probe = NoProbe
    /\ n_threads \in {1, DEFAULT_THREADS}
    /\ \E T \in Times, tp \in Times, tn \in Times :
          /\ look_back \in {lb \in LookBacks : lb < T}
          /\ script = [on |-> TRUE,
                       rest |-> ScenarioWindow(T, tp, tn),
                       builds |-> {}]
    /\ consumed = <<>>
    /\ source = "open"
    /\ tees = <<0, 0, 0>>
    /\ pool = <<>>
    /\ jobs = <<>>
    /\ results = <<>>
    /\ pc = "setup"
    /\ err = NoError
    /\ ret = EmptyDict

\* the source produces the window and ends; the program's steps are all there
NextScenario ==
    \/ SetupPull
    \/ LoopZip
    \/ LoopPull
    \/ LoopStop
    \/ LoopSubmit
    \/ LoopAppend
    \/ AwaitResult
    \/ AwaitRaise
    \/ AwaitDone
    \/ ExitReturn
    \/ ExitRaise
    \/ Worker

SpecScenario == InitScenario /\ [][NextScenario]_vars

----------------------------------------------------------------------------
(* Claims *)

\* the four conditions of a flip, on the call's arguments
FlipConditions ==
    LET t == probe.task
        n == t.display_name
    IN  /\ t.activated
        /\ ~t.success
        /\ n \in DOMAIN probe.tasks_prev
        /\ probe.tasks_prev[n].status = t.status
        /\ n \in DOMAIN probe.tasks_next
        /\ probe.tasks_next[n].status # t.status

\* C1: _is_task_a_flip returns true exactly when the task is activated, is
\* not successful, has a previous task of its display name with an equal
\* status, and has a next task of its display name with a different status.
C1_FlipIffAllConditions ==
    (probe.op = "_is_task_a_flip" /\ probe.done)
        => (probe.result <=> FlipConditions)

\* C1 witness: a call that found a flip of a task that timed out
C1_Witness ==
    /\ probe.op = "_is_task_a_flip"
    /\ probe.done
    /\ probe.result
    /\ probe.task.status = "timed_out"
    /\ probe.tasks_next[probe.task.display_name].status = "failed"

Marked(build) == startswith(build.display_name, Bang)

VersionCallDone == probe.op = "_flips_for_version" /\ probe.done

\* C2: no build whose display name starts with "!" is passed to flip
\* detection or appears in the FlipList, whatever its task outcomes, and
\* every build whose display name does not start with "!" is analysed.
C2_MarkedBuildsExcluded ==
    VersionCallDone =>
        LET builds == probe.work_item.version.builds
            passed == {probe.analysed[i] : i \in DOMAIN probe.analysed}
        IN  \A i \in DOMAIN builds :
               IF Marked(builds[i])
               THEN /\ builds[i] \notin passed
                    /\ builds[i].build_variant
                          \notin DOMAIN probe.result.value.flipped_tasks
               ELSE builds[i] \in passed

\* the mapping the scenario expects: {"abc123": {"linux": ["A"]}}
ScenarioResult == "abc123" :> ("linux" :> <<"A">>)

\* C3: on the scenario's window, with look_back before the current version's
\* create_time, find returns {"abc123": {"linux": ["A"]}}: the revision of
\* the scheduled triple, its variant, and the flipped task names in the
\* order of the current build's tasks.
C3_ScenarioResult ==
    pc = "returned" => ret = ScenarioResult

\* the triples of the versions consumed so far, by the index of their first
Triples == 1..(Len(consumed) - 2)

Below(i) == consumed[i].create_time < look_back

\* the triples whose current version was created before look_back
CutTriples == {k \in Triples : Below(k + 1)}

FirstCut == CHOOSE k \in CutTriples : \A m \in CutTriples : k <= m

\* the main thread is in the loop body with a triple it has not yet handed
\* to the pool (line 145), or not yet added to its jobs list (line 150)
Untested == pc = "test"

Unappended == pc \in {"test", "append"}

\* C4: scheduling stops at the first current version created strictly before
\* look_back: that triple and the later ones are never submitted and the
\* source is not read further, every triple before it is submitted (a
\* version created at look_back is); when look_back exceeds every create_time
\* nothing is submitted and find returns {}.  A triple is submitted at once
\* after it is read: only the triple in the loop body may be missing.
C4_CutoffStopsScheduling ==
    /\ CutTriples = {} =>
          /\ Len(pool) = Cardinality(Triples) - (IF Untested THEN 1 ELSE 0)
          /\ Len(jobs) = Cardinality(Triples) - (IF Unappended THEN 1 ELSE 0)
    /\ CutTriples # {} =>
          /\ Len(pool) = FirstCut - 1
          /\ Len(jobs) = FirstCut - 1
          /\ Len(consumed) = FirstCut + 2
          /\ pc \notin {"setup", "loop", "append"}
    /\ \A j \in DOMAIN pool :
          /\ pool[j].work_item.version = consumed[j + 1]
          /\ pool[j].work_item.version.create_time >= look_back
    /\ (\A i \in DOMAIN consumed : Below(i)) =>
          /\ pool = <<>>
          /\ pc = "returned" => ret = EmptyDict

\* C4 witness: a version created exactly at look_back was scheduled, the next
\* current version was created before look_back and ended the scheduling
C4_Witness ==
    /\ pc = "returned"
    /\ Len(pool) = 1
    /\ CutTriples = {2}
    /\ consumed[2].create_time = look_back
    /\ consumed[4].create_time >= look_back

JobFlips(j) == pool[j].result.flipped_tasks

\* the variants of a work item's current version in which a task flips
FlippedVariants(w) ==
    {b.build_variant : b \in
        {w.version.builds[i] : i \in
            {i \in DOMAIN w.version.builds :
                /\ Marked(w.version.builds[i])
                /\ _flips_for_build(w.version.builds[i], w.version_prev,
                                    w.version_next).value # <<>>}}}

\* C5: no empty entry reaches the output: every variant of a FlipList has a
\* non-empty list of tasks and the FlipList has exactly the variants with a
\* flipped task; every revision of the mapping find returns has a non-empty
\* mapping and the mapping has exactly the revisions with a flip.
C5_NoEmptyEntries ==
    /\ \A j \in DOMAIN pool :
          pool[j].status = "done" =>
              /\ \A v \in DOMAIN JobFlips(j) : JobFlips(j)[v] # <<>>
              /\ DOMAIN JobFlips(j) = FlippedVariants(pool[j].work_item)
    /\ pc = "returned" =>
          /\ \A r \in DOMAIN ret : ret[r] # EmptyDict
          /\ DOMAIN ret =
                {results[i].revision : i \in
                    {i \in DOMAIN results :
                        DOMAIN results[i].flipped_tasks # {}}}

\* C5 witness: find returned; the first work item had no flip in either
\* variant and its revision is absent from the mapping; the second had a flip
\* in "linux" and none in "windows-debug", which is absent from its FlipList
C5_Witness ==
    /\ pc = "returned"
    /\ Len(results) = 2
    /\ JobFlips(1) = EmptyDict
    /\ Len(pool[2].work_item.version.builds) = 2
    /\ DOMAIN JobFlips(2) = {"linux"}
    /\ DOMAIN ret = {results[2].revision}

\* the triples find schedules, from the versions alone
Scheduled == {k \in Triples : \A m \in 1..k : ~Below(m + 1)}

\* what find returns when the work items run one after the other
SequentialResult ==
    ResultDict([k \in 1..Cardinality(Scheduled) |->
                   _flips_for_version(WorkItem(consumed[k + 1], consumed[k],
                                               consumed[k + 2])).value])

\* C6: every triple is submitted before any result is awaited, the results
\* are collected in submission order, and the mapping find returns is the one
\* a sequential run over the same versions gives, whatever the order in which
\* the workers finish, a work item run before submit returns included.
C6_SubmitAllThenCollectInOrder ==
    /\ [](/\ pc \in {"setup", "loop", "test", "append"} => results = <<>>
          /\ Len(results) <= Len(jobs)
          /\ \A j \in DOMAIN jobs : jobs[j] = j
          /\ \A i \in DOMAIN results : results[i] = pool[i].result
          /\ pc = "returned" =>
                (Len(results) = Len(pool) /\ ret = SequentialResult))
    /\ [][/\ Len(pool') # Len(pool) => (results = <<>> /\ pc = "test")
          /\ jobs' # jobs => (results = <<>> /\ pc = "append")
          /\ results' # results =>
                (pc = "await" /\ Len(pool') = Len(pool) /\ jobs' = jobs)]_vars

\* C6 witness: both triples are submitted and the second work item has
\* finished first, with flips; the main thread collects nothing before the
\* first one finishes
C6_Witness ==
    /\ pc = "await"
    /\ n_threads > 1
    /\ Len(jobs) = 2
    /\ results = <<>>
    /\ pool[1].status = "pending"
    /\ pool[2].status = "done"
    /\ JobFlips(2) # EmptyDict

Failed == {j \in DOMAIN pool : pool[j].status = "failed"}

FirstFailed == CHOOSE j \in Failed : \A i \in Failed : j <= i

\* C7 as claimed: when the source raises, or any work item raises, find
\* terminates with that error and returns no mapping.
C7_Original ==
    pc \in {"returned", "raised"} =>
        /\ source = "raised" =>
              (pc = "raised" /\ err = SourceError /\ ret = EmptyDict)
        /\ \A j \in Failed :
              (pc = "raised" /\ err = JobError(j) /\ ret = EmptyDict)

\* C7 as amended: a failure of the version source or of a work item is never
\* swallowed: find then raises and returns no mapping, even when other work
\* items completed; the error it raises is the source's when the source
\* raised, and otherwise that of the first work item, in submission order,
\* that raised; find returns only when every work item returned.
C7_FailuresPropagate ==
    /\ pc = "returned" =>
          /\ source # "raised"
          /\ Failed = {}
          /\ \A j \in DOMAIN pool : pool[j].status = "done"
          /\ err = NoError
    /\ source = "raised" => (err = SourceError /\ pc \in {"exit", "raised"})
    /\ (pc \in {"exit", "returned", "raised"} /\ source # "raised"
          /\ Failed # {})
          => (err = JobError(FirstFailed) /\ pc # "returned")
    /\ pc = "raised" => (err # NoError /\ ret = EmptyDict)

\* C7 witness: find raised the error of the second work item although the
\* first work item had completed with flips
C7_Witness ==
    /\ pc = "raised"
    /\ source # "raised"
    /\ Len(pool) = 2
    /\ pool[1].status = "done"
    /\ JobFlips(1) # EmptyDict
    /\ Failed = {2}
    /\ err = JobError(2)

\* C8: the k-th work item is (version_prev = v[k], version = v[k+1],
\* version_next = v[k+2]); without a cutoff a history of n versions gives
\* max(0, n-2) work items; the first and the last version are never the
\* current version of a work item.
C8_WindowOfThree ==
    /\ \A k \in DOMAIN pool :
          pool[k].work_item =
              WorkItem(consumed[k + 1], consumed[k], consumed[k + 2])
    /\ (source = "exhausted" /\ CutTriples = {}) =>
          /\ Len(pool) = IF Len(consumed) >= 2 THEN Len(consumed) - 2 ELSE 0
          /\ Len(jobs) = Len(pool)
          /\ \A k \in DOMAIN pool :
                pool[k].work_item.version.revision
                    \notin {consumed[1].revision,
                            consumed[Len(consumed)].revision}
    /\ Len(consumed) < 3 => pool = <<>>

\* C8 witness: a history of four versions, exhausted, gave two work items
C8_Witness ==
    /\ source = "exhausted"
    /\ Len(consumed) = 4
    /\ Len(pool) = 2
    /\ pool[2].work_item.version_prev = pool[1].work_item.version

\* a work item, once submitted, stays in the pool, and once finished keeps
\* its outcome
NoJobDropped ==
    /\ Len(pool') >= Len(pool)
    /\ \A j \in DOMAIN pool :
          /\ pool'[j].work_item = pool[j].work_item
          /\ Finished(j) => pool'[j] = pool[j]

\* C9: no work item submitted to the pool is cancelled: it stays submitted,
\* an unfinished work item leads to all the submitted work items being
\* finished (returned or raised), and find neither returns nor raises before
\* every submitted work item has finished, however the scheduling ended.
C9_NoCancellation ==
    /\ [](pc \in {"returned", "raised"} => \A j \in DOMAIN pool : Finished(j))
    /\ [][NoJobDropped]_vars
    /\ (\E j \in DOMAIN pool : ~Finished(j))
          ~> (\A j \in DOMAIN pool : Finished(j))

\* C9 witness: find raised the source's error after two work items, submitted
\* before the error, had finished
C9_Witness ==
    /\ pc = "raised"
    /\ err = SourceError
    /\ Len(pool) = 2
    /\ \A j \in DOMAIN pool : Finished(j)

\* C10: only the current version of a triple is compared with look_back:
\* every work item's current version was created at or after look_back, a
\* triple whose current and earlier current versions pass is submitted
\* whatever the create_time of its neighbours and of the first version (at
\* once after it is read: only the triple in the loop body may be missing),
\* and at the cutoff at v[i] the source has produced v[i+1] and nothing
\* beyond.
C10_OnlyCurrentVersionTested ==
    /\ \A j \in DOMAIN pool : ~Below(j + 1)
    /\ Len(pool) =
          Cardinality(Scheduled)
              - (IF Untested /\ Len(consumed) - 2 \in Scheduled THEN 1 ELSE 0)
    /\ Len(jobs) =
          Cardinality(Scheduled)
              - (IF Unappended /\ Len(consumed) - 2 \in Scheduled
                 THEN 1 ELSE 0)
    /\ \A k \in Triples :
          (k \notin Scheduled /\ k - 1 \in Scheduled \cup {0}) =>
              /\ Below(k + 1)
              /\ Len(consumed) = k + 2
              /\ source = "open"

\* C10 witness: a work item ran and found a flip although its version_prev,
\* the first version of the stream, and its version_next were both created
\* before look_back; its version_next then ended the scheduling
C10_Witness ==
    /\ pc = "returned"
    /\ Len(pool) = 1
    /\ Len(consumed) = 4
    /\ Below(1)
    /\ Below(3)
    /\ ~Below(4)
    /\ pool[1].work_item.version_next.create_time < look_back
    /\ JobFlips(1) # EmptyDict
    /\ ret # EmptyDict

====
